---- MODULE Spec2Model ----
(***************************************************************************)
(* Model of the WhatsApp resume parser: src/resume_parser.py (text         *)
(* extraction, model-response parsing, field recovery) and src/app.py (the *)
(* webhook handler).                                                       *)
(*                                                                         *)
(* Text is a sequence of one-character strings.  A model response is a     *)
(* sequence of lexemes (see Lexemes below).                                *)
(***************************************************************************)
EXTENDS Integers, Sequences, FiniteSets, TLC

VARIABLES
    op,       \* function specs: which function was applied ("idle" before)
    input,    \* function specs: the argument drawn for the function
    output,   \* function specs: what the function returned
    now,      \* handler: the clock, int(time.time())
    sheet,    \* handler: rows of the row-store, in append order
    files,    \* handler: downloads/ directory, path -> id of the event whose bytes it holds
    saved,    \* handler: the media events that wrote a file, [id, path]
    handled,  \* handler: number of events handled so far
    last      \* handler: what the last request did and returned

vars == <<op, input, output, now, sheet, files, saved, handled, last>>

----------------------------------------------------------------------------
(* Bounds of the model *)

MaxPad == 1
MaxPages == 2
MaxLex == 3
MaxEvents == 1
MaxHistory == 2
MaxTime == 2

----------------------------------------------------------------------------
(* Program constants *)

PdfMinText == 20
ImgMinText == 10
HandlerPdfMinText == 50
BodyMinLen == 10
ExcerptCap == 500
HttpOk == 200

----------------------------------------------------------------------------
(* Strings *)

WS == {" ", "\n"}

Rep(c, n) == [i \in 1..n |-> c]

Pad(n) == Rep(" ", n)

Min(a, b) == IF a < b THEN a ELSE b

\* Index of the least element of a non-empty set of integers
Least(I) == CHOOSE i \in I : \A j \in I : i <= j

Greatest(I) == CHOOSE i \in I : \A j \in I : i >= j

NonBlank(s) == {i \in DOMAIN s : s[i] \notin WS}

\* str.lstrip()
LStrip(s) == IF NonBlank(s) = {} THEN <<>> ELSE SubSeq(s, Least(NonBlank(s)), Len(s))

\* str.strip()
Strip(s) ==
    IF NonBlank(s) = {} THEN <<>>
    ELSE SubSeq(s, Least(NonBlank(s)), Greatest(NonBlank(s)))

RECURSIVE Concat(_)
Concat(ss) == IF ss = <<>> THEN <<>> ELSE Head(ss) \o Concat(Tail(ss))

\* Texts of n copies of c with at most MaxPad blanks around them.
Texts(c, lens) ==
    { Pad(l) \o Rep(c, n) \o Pad(r) :
        <<l, r, n>> \in { t \in (0..MaxPad) \X (0..MaxPad) \X lens : t[1] + t[2] <= MaxPad } }

----------------------------------------------------------------------------
(* resume_parser.py: text extraction *)

\* page.extract_text() or the empty string
OrEmpty(page) == IF page.isNone THEN <<>> ELSE page.text

\* pdf_to_images: the page images, or [] when pdf2image is missing or raises.
\* An image is modelled by what pytesseract makes of it.
pdf_to_images(pdf) == IF pdf.raster = "ok" THEN pdf.images ELSE <<>>

OcrRaises(images) == \E i \in DOMAIN images : images[i].raises

\* extract_text_from_pdf.  pdf.read = "raise": opening or reading the text
\* layer raises.
extract_text_from_pdf(pdf) ==
    IF pdf.read = "raise" THEN Strip(<<>>)
    ELSE
        LET text == Concat([i \in DOMAIN pdf.pages |-> OrEmpty(pdf.pages[i])])
        IN  IF Len(Strip(text)) < PdfMinText
            THEN LET images == pdf_to_images(pdf)
                 IN  IF images # <<>>
                     THEN IF OcrRaises(images)
                          THEN Strip(<<>>)
                          ELSE Strip(text \o Concat([i \in DOMAIN images |-> images[i].text]))
                     ELSE Strip(text)
            ELSE Strip(text)

\* extract_text_from_image.  img.open = "raise": Image.open (or getsize) raises.
extract_text_from_image(img) ==
    IF img.open = "raise" \/ img.first.raises THEN Strip(<<>>)
    ELSE IF Len(Strip(img.first.text)) < ImgMinText
         THEN IF img.retry.raises THEN Strip(<<>>) ELSE Strip(img.retry.text)
         ELSE Strip(img.first.text)

----------------------------------------------------------------------------
(* resume_parser.py: the model response and its parsing                    *)
(*                                                                         *)
(* A response is a sequence of lexemes: the characters "{", "}", " " and   *)
(* "x" (any other character), the Markdown fences "fence" (three           *)
(* backquotes) and "fence_json" (three backquotes and json), and one       *)
(* lexeme per key of a JSON object: the lexeme "Email" is the text of the  *)
(* pair with key Email and value v.  "Other" is a pair whose key is none   *)
(* of the five fields; "," separates the pairs of an object.               *)

Fields == <<"Full Name", "Email", "Phone Number", "CGPA", "BTech College Name">>

FieldSet == {Fields[i] : i \in DOMAIN Fields}

PairLex == FieldSet \cup {"Other"}

Lexemes == {"{", "}", ",", " ", "x", "fence", "fence_json"} \cup PairLex

\* Number of characters of a lexeme: the pair of Email is 12 characters long.
Width(lx) ==
    CASE lx = "fence" -> 3
      [] lx = "fence_json" -> 7
      [] lx = "Full Name" -> 16
      [] lx = "Email" -> 12
      [] lx = "Phone Number" -> 19
      [] lx = "CGPA" -> 11
      [] lx = "BTech College Name" -> 25
      [] lx = "Other" -> 12
      [] OTHER -> 1

\* len(s) in characters
RECURSIVE CharLen(_)
CharLen(s) ==
    IF s = <<>> THEN 0
    ELSE IF Len(s) = 1 THEN Width(s[1])
         ELSE LET h == Len(s) \div 2
              IN  CharLen(SubSeq(s, 1, h)) + CharLen(SubSeq(s, h + 1, Len(s)))

\* text[:n] of a response: the lexemes that fit whole, and the number of
\* characters taken from the lexeme the cut falls in.
TakeChars(s, n) ==
    LET k == Greatest({j \in 0..Len(s) : CharLen(SubSeq(s, 1, j)) <= n})
    IN  [whole |-> SubSeq(s, 1, k),
         cut |-> IF k = Len(s) THEN 0 ELSE n - CharLen(SubSeq(s, 1, k))]

ExcerptLen(e) == CharLen(e.whole) + e.cut

\* The value of Optional[dict]
None == [isNone |-> TRUE, dict |-> <<>>]

Some(d) == [isNone |-> FALSE, dict |-> d]

\* cleaned_text starts with an opening and ends with a closing brace
LooksLikeObject(t) == t # <<>> /\ t[1] = "{" /\ t[Len(t)] = "}"

\* json.loads(t) does not raise JSONDecodeError
JsonValid(t) ==
    /\ Len(t) >= 2
    /\ LooksLikeObject(t)
    /\ LET m == SelectSeq(SubSeq(t, 2, Len(t) - 1), LAMBDA x : x \notin WS)
       IN  \/ m = <<>>
           \/ /\ Len(m) % 2 = 1
              /\ \A i \in DOMAIN m :
                    IF i % 2 = 1 THEN m[i] \in PairLex ELSE m[i] = ","

\* json.loads(t) of a valid t: the mapping of its keys
JsonLoads(t) == [k \in {t[i] : i \in 2..(Len(t) - 1)} \cap PairLex |-> "v"]

\* re.sub of the tagged fence and the whitespace after it
RECURSIVE SubJsonFence(_)
SubJsonFence(s) ==
    LET F == {i \in DOMAIN s : s[i] = "fence_json"}
    IN  IF F = {} THEN s
        ELSE SubSeq(s, 1, Least(F) - 1)
                \o SubJsonFence(LStrip(SubSeq(s, Least(F) + 1, Len(s))))

\* re.sub of the fence that ends the text
SubTrailingFence(s) ==
    LET I == {i \in DOMAIN s : s[i] = "fence" /\ \A k \in (i + 1)..Len(s) : s[k] \in WS}
    IN  IF I = {} THEN s
        ELSE SubSeq(s, 1, Least(I) - 1)

\* re.sub of the fence that starts the text
SubLeadingFence(s) == IF s # <<>> /\ Head(s) = "fence" THEN LStrip(Tail(s)) ELSE s

\* Index of the first brace of s at or after k, 0 when there is none.
NextBrace(s, k) ==
    LET B == {i \in k..Len(s) : s[i] \in {"{", "}"}}
    IN  IF B = {} THEN 0 ELSE Least(B)

\* json_pattern after its opening brace and first run of non-braces: p is the
\* next brace; each nested group is a brace pair with no brace inside.
\* The index of the closing brace of the match, 0 when there is no match.
RECURSIVE MatchTail(_, _)
MatchTail(s, p) ==
    IF p = 0 THEN 0
    ELSE IF s[p] = "}" THEN p
         ELSE LET q == NextBrace(s, p + 1)
              IN  IF q # 0 /\ s[q] = "}" THEN MatchTail(s, NextBrace(s, q + 1)) ELSE 0

MatchEnd(s, i) == MatchTail(s, NextBrace(s, i + 1))

\* re.findall(json_pattern, s, re.DOTALL) from index i on: a match starts at
\* an opening brace, and the search resumes after a match
RECURSIVE FindAll(_, _)
FindAll(s, i) ==
    LET O == {j \in i..Len(s) : s[j] = "{"}
    IN  IF O = {} THEN <<>>
        ELSE LET e == MatchEnd(s, Least(O))
             IN  IF e # 0 THEN <<SubSeq(s, Least(O), e)>> \o FindAll(s, e + 1)
                 ELSE FindAll(s, Least(O) + 1)

\* The manual key extraction: the fields whose label pattern occurs in s.
ManualExtract(s) == [f \in {s[i] : i \in DOMAIN s} \cap FieldSet |-> "v"]

\* extract_json_from_response
extract_json_from_response(response_text) ==
    LET c0 == Strip(response_text)
        c1 == Strip(SubLeadingFence(SubTrailingFence(SubJsonFence(c0))))
        matches == FindAll(c1, 1)
        good == {i \in DOMAIN matches : JsonValid(matches[i])}
        result == ManualExtract(c1)
    IN  IF LooksLikeObject(c0) /\ JsonValid(c0) THEN Some(JsonLoads(c0))
        ELSE IF LooksLikeObject(c1) /\ JsonValid(c1) THEN Some(JsonLoads(c1))
        ELSE IF good # {}
             THEN Some(JsonLoads(matches[Least(good)]))
        ELSE IF DOMAIN result # {} THEN Some(result)
        ELSE None

\* The record with the single key error
ErrorRecord(msg) == [k \in {"error"} |-> msg]

\* FallbackRecord with the excerpt cut where the log line cuts it
FallbackRecord_LogCut(response) ==
    [k \in FieldSet \cup {"raw_response"} |->
        IF k = "raw_response" THEN TakeChars(response, 200) ELSE "N/A"]

\* The record of five N/A with the excerpt of the raw response
FallbackRecord(response) ==
    [k \in FieldSet \cup {"raw_response"} |->
        IF k = "raw_response" THEN TakeChars(response, ExcerptCap) ELSE "N/A"]

\* if parsed_data: a dict that is not None and not empty
Truthy(parsed) == ~parsed.isNone /\ DOMAIN parsed.dict # {}

\* extract_resume_info.  model.raises: generate_content (or response.text)
\* raises; model.response: response.text.
extract_resume_info(text, model) ==
    IF text = <<>> THEN ErrorRecord("No text found in resume")
    ELSE IF model.raises THEN ErrorRecord("model error")
    ELSE LET parsed_data == extract_json_from_response(model.response)
         IN  IF Truthy(parsed_data) THEN parsed_data.dict
             ELSE FallbackRecord(model.response)

\* The model was invoked: the text passed the emptiness check
ModelInvoked(text) == text # <<>>

----------------------------------------------------------------------------
(* The handler's state before the first request *)

NoData == ErrorRecord("none")

NoReply == [kind |-> "none", message |-> <<>>, data |-> NoData]

Idle ==
    [kind |-> "none", stage |-> "none", reply |-> NoReply, req |-> <<>>,
     downloaded |-> FALSE, status |-> 0, written |-> FALSE, path |-> <<>>,
     extracted |-> FALSE, info |-> FALSE, infoArg |-> <<>>, modelCalled |-> FALSE,
     data |-> NoData, append |-> "none", row |-> <<>>]

HandlerInit ==
    /\ now = 0
    /\ sheet = <<>>
    /\ files = <<>>
    /\ saved = <<>>
    /\ handled = 0
    /\ last = Idle

HandlerVars == <<now, sheet, files, saved, handled, last>>

FnVars == <<op, input, output>>

----------------------------------------------------------------------------
(* SpecExtract: the two text extractors applied to every document of the   *)
(* bounded sets below.                                                     *)

DirectLens == {0, 5, 19, 20}

OcrLens == {0, 40}

FirstLens == {0, 5, 9, 10}

RetryLens == {0, 3, 40}

PageValues ==
    {[isNone |-> TRUE, text |-> <<>>]}
        \cup {[isNone |-> FALSE, text |-> t] : t \in Texts("d", DirectLens)}

OcrValues(c, lens) ==
    {[raises |-> TRUE, text |-> <<>>]}
        \cup {[raises |-> FALSE, text |-> t] : t \in Texts(c, lens)}

Pdfs ==
    {[read |-> "raise", pages |-> <<>>, raster |-> "ok", images |-> <<>>]}
        \cup UNION { [read : {"ok"}, pages : [1..n -> PageValues],
                      raster : {"missing", "raise"}, images : {<<>>}]
                        \cup [read : {"ok"}, pages : [1..n -> PageValues],
                              raster : {"ok"}, images : [1..n -> OcrValues("o", OcrLens)]]
                     : n \in 1..MaxPages }

Images ==
    [open : {"ok", "raise"}, first : OcrValues("a", FirstLens),
     retry : OcrValues("b", RetryLens)]

InitExtract ==
    /\ op = "idle"
    /\ input \in [kind : {"pdf"}, arg : Pdfs] \cup [kind : {"image"}, arg : Images]
    /\ output = <<>>
    /\ HandlerInit

ExtractTextFromPdf ==
    /\ op = "idle"
    /\ input.kind = "pdf"
    /\ op' = "extract_text_from_pdf"
    /\ output' = extract_text_from_pdf(input.arg)
    /\ UNCHANGED <<input, HandlerVars>>

ExtractTextFromImage ==
    /\ op = "idle"
    /\ input.kind = "image"
    /\ op' = "extract_text_from_image"
    /\ output' = extract_text_from_image(input.arg)
    /\ UNCHANGED <<input, HandlerVars>>

NextExtract == ExtractTextFromPdf \/ ExtractTextFromImage

SpecExtract == InitExtract /\ [][NextExtract]_vars

----------------------------------------------------------------------------
(* SpecRecover: the response parser and the field recovery applied to      *)
(* every response of at most MaxLex lexemes, to long responses around the  *)
(* excerpt cap, and to complete objects.                                   *)

RECURSIVE SeqsUpTo(_, _)
SeqsUpTo(S, n) ==
    IF n = 0 THEN {<<>>}
    ELSE LET shorter == SeqsUpTo(S, n - 1)
         IN  shorter \cup {Append(s, x) : s \in {t \in shorter : Len(t) = n - 1}, x \in S}

FullObject ==
    <<"{", "Full Name", ",", "Email", ",", "Phone Number", ",", "CGPA", ",",
      "BTech College Name", "}">>

SampleResponses ==
    { FullObject,
      <<"fence_json", " ">> \o FullObject \o <<" ", "fence">>,
      <<"x", " ">> \o FullObject,
      <<"{", "x", "{", "}", "Email", "}">>,
      <<"{", "{", "x", "}", "{", "Email", "}">>,
      <<"x", "{", "Other", "}", "{", "CGPA", "}">>,
      <<"{", "Email", ",", " ", "CGPA", "}">>,
      <<"{", "Email", " ", "CGPA", "}">> }

LongResponses ==
    { Rep("x", n) : n \in {ExcerptCap - 1, ExcerptCap, ExcerptCap + 1} }
        \cup { Rep(" ", ExcerptCap + 1),
               Rep("x", ExcerptCap - 2) \o <<"fence">>,
               Rep("x", ExcerptCap - 2) \o <<"fence_json", "x">> }

Responses == SeqsUpTo(Lexemes, MaxLex) \cup SampleResponses \cup LongResponses

ModelOutcomes ==
    {[raises |-> TRUE, response |-> <<>>]}
        \cup {[raises |-> FALSE, response |-> r] : r \in Responses}

ResumeTexts == {<<>>, <<"r">>}

InitRecover ==
    /\ op = "idle"
    /\ input \in [kind : {"response"}, arg : Responses]
                    \cup [kind : {"resume"}, arg : ResumeTexts \X ModelOutcomes]
    /\ output = <<>>
    /\ HandlerInit

ExtractJsonFromResponse ==
    /\ op = "idle"
    /\ input.kind = "response"
    /\ op' = "extract_json_from_response"
    /\ output' = extract_json_from_response(input.arg)
    /\ UNCHANGED <<input, HandlerVars>>

ExtractResumeInfo ==
    /\ op = "idle"
    /\ input.kind = "resume"
    /\ op' = "extract_resume_info"
    /\ output' = extract_resume_info(input.arg[1], input.arg[2])
    /\ UNCHANGED <<input, HandlerVars>>

NextRecover == ExtractJsonFromResponse \/ ExtractResumeInfo

SpecRecover == InitRecover /\ [][NextRecover]_vars

----------------------------------------------------------------------------
(* app.py: strings of the handler *)

UpperAlpha == <<"A", "B", "C", "D", "E", "F", "G", "H", "I", "J", "K", "L", "M", "N", "O", "P", "Q", "R", "S", "T", "U", "V", "W", "X", "Y", "Z">>

LowerAlpha == <<"a", "b", "c", "d", "e", "f", "g", "h", "i", "j", "k", "l", "m", "n", "o", "p", "q", "r", "s", "t", "u", "v", "w", "x", "y", "z">>

DigitChars == <<"0", "1", "2", "3", "4", "5", "6", "7", "8", "9">>

LowerChar(c) ==
    IF \E i \in DOMAIN UpperAlpha : UpperAlpha[i] = c
    THEN LowerAlpha[CHOOSE i \in DOMAIN UpperAlpha : UpperAlpha[i] = c]
    ELSE c

\* str.lower()
Lower(s) == [i \in DOMAIN s |-> LowerChar(s[i])]

\* sub in s
Contains(s, sub) ==
    \E i \in 0..(Len(s) - Len(sub)) : SubSeq(s, i + 1, i + Len(sub)) = sub

\* s.endswith(suffix)
EndsWith(s, suffix) ==
    Len(s) >= Len(suffix) /\ SubSeq(s, Len(s) - Len(suffix) + 1, Len(s)) = suffix

\* s.split(sep)[-1] for the one-character separator sep
SplitLast(s, sep) ==
    LET I == {i \in DOMAIN s : s[i] = sep}
    IN  IF I = {} THEN s ELSE SubSeq(s, Greatest(I) + 1, Len(s))

\* str(n) of an integer n >= 0
RECURSIVE Digits(_)
Digits(n) ==
    IF n < 10 THEN <<DigitChars[n + 1]>>
    ELSE Digits(n \div 10) \o <<DigitChars[(n % 10) + 1]>>

DigitValue(c) == (CHOOSE i \in DOMAIN DigitChars : DigitChars[i] = c) - 1

RECURSIVE Decimal(_)
Decimal(ds) ==
    IF ds = <<>> THEN 0
    ELSE 10 * Decimal(SubSeq(ds, 1, Len(ds) - 1)) + DigitValue(ds[Len(ds)])

\* int(s) of a form value: blanks around it and one sign are accepted;
\* ok is FALSE when int raises ValueError
ParseInt(s) ==
    LET t == Strip(s)
        signed == t # <<>> /\ t[1] \in {"-", "+"}
        ds == IF signed THEN Tail(t) ELSE t
        ok == ds # <<>> /\ \A i \in DOMAIN ds : \E j \in DOMAIN DigitChars : DigitChars[j] = ds[i]
    IN  [ok |-> ok,
         val |-> IF ~ok THEN 0
                 ELSE IF signed /\ t[1] = "-" THEN 0 - Decimal(ds) ELSE Decimal(ds)]

\* A form field: absent, or present with a value
Absent == [present |-> FALSE, value |-> <<>>]

Field(v) == [present |-> TRUE, value |-> v]

\* request.form.get(name, default)
FormGet(field, default) == IF field.present THEN field.value ELSE default

Pdf == <<"p", "d", "f">>

Png == <<"p", "n", "g">>

Jpeg == <<"j", "p", "e", "g">>

Jpg == <<"j", "p", "g">>

Keywords ==
    { <<"e", "m", "a", "i", "l">>,
      <<"@">>,
      <<"m", "o", "b", "i", "l", "e">>,
      <<"p", "h", "o", "n", "e">>,
      <<"c", "g", "p", "a">>,
      <<"c", "o", "l", "l", "e", "g", "e">>,
      <<"b", ".", "t", "e", "c", "h">>,
      <<"e", "d", "u", "c", "a", "t", "i", "o", "n">> }

----------------------------------------------------------------------------
(* app.py: whatsapp_webhook *)

TicksPerSecond == 2

\* int(time.time()) of a clock that counts ticks
Timestamp(t) == t \div TicksPerSecond

\* The extension derived from the declared content type
FileExtension(content_type) ==
    IF Contains(Lower(content_type), Pdf) THEN Pdf
    ELSE IF Contains(Lower(content_type), Png) THEN Png
    ELSE IF Contains(Lower(content_type), Jpeg) \/ Contains(Lower(content_type), Jpg)
         THEN Jpg
    ELSE SplitLast(content_type, "/")

\* resume_<timestamp>.<extension>
FileName(timestamp, file_extension) ==
    <<"r", "e", "s", "u", "m", "e", "_">> \o Digits(timestamp) \o <<".">> \o file_extension

\* os.path.join("downloads", file_name)
FilePath(file_name) == <<"d", "o", "w", "n", "l", "o", "a", "d", "s", "/">> \o file_name

\* DownloadOk that takes every status below 400 for a success
DownloadOk_Below400(status_code) == status_code < 400

\* The download succeeded
DownloadOk(status_code) == status_code = HttpOk

\* The file is handled as a PDF
IsPdf(file_extension, file_name) ==
    Lower(file_extension) = Pdf \/ EndsWith(Lower(file_name), <<".">> \o Pdf)

\* Text extraction by file type, with the image fallback for a PDF whose
\* text is short.  doc.pdf and doc.img are what the PDF reader and the
\* image reader make of the file.
ExtractText(file_extension, file_name, doc) ==
    IF IsPdf(file_extension, file_name)
    THEN LET text == extract_text_from_pdf(doc.pdf)
         IN  IF Len(Strip(text)) < HandlerPdfMinText
             THEN LET ocr_text == extract_text_from_image(doc.img)
                  IN  IF Len(Strip(ocr_text)) > Len(Strip(text)) THEN ocr_text ELSE text
             ELSE text
    ELSE extract_text_from_image(doc.img)

\* not text or len(text.strip()) == 0
NoText(text) == text = <<>> \/ Len(Strip(text)) = 0

\* data.get(key, "N/A")
DictGet(data, key) == IF key \in DOMAIN data THEN data[key] ELSE "N/A"

\* Row with the message of an error record written into its first column
Row_ErrorShown(data) ==
    [i \in DOMAIN Fields |->
        IF i = 1 /\ "error" \in DOMAIN data THEN data["error"]
        ELSE DictGet(data, Fields[i])]

\* The row handed to sheet.append_row
Row(data) == [i \in DOMAIN Fields |-> DictGet(data, Fields[i])]

\* LongEnough with the threshold one character higher
LongEnough_OneMore(body) == body # <<>> /\ Len(Strip(body)) > BodyMinLen + 1

\* The body is long enough to be looked at
LongEnough(body) == body # <<>> /\ Len(Strip(body)) > BodyMinLen

\* The body looks like a resume
LooksLikeResume(body) == \E keyword \in Keywords : Contains(Lower(body), keyword)

\* The replies.  A reply whose text embeds a value carries the formatted
\* text; the fixed texts are told apart by kind.
FixedReply(kind) == [kind |-> kind, message |-> <<>>, data |-> NoData]

DownloadErrorReply(status_code) ==
    [kind |-> "download_error",
     message |-> <<"E", "r", "r", "o", "r", " ", "d", "o", "w", "n", "l", "o", "a", "d", "i", "n", "g", " ", "r", "e", "s", "u", "m", "e", ":", " ", "H", "T", "T", "P", " ">> \o Digits(status_code)
                    \o <<".", " ", "C", "h", "e", "c", "k", " ", "T", "w", "i", "l", "i", "o", " ", "c", "r", "e", "d", "e", "n", "t", "i", "a", "l", "s", ".">>,
     data |-> NoData]

SuccessReply(data) == [kind |-> "success", message |-> <<>>, data |-> data]

\* ReplyAfterAppend that reports a failed append to the user
ReplyAfterAppend_Reports(data, appendOutcome) ==
    IF appendOutcome = "raise" THEN FixedReply("sheet_error") ELSE SuccessReply(data)

\* The reply after the append was tried: a failure is printed, the reply is
\* the one that summarizes the record either way
ReplyAfterAppend(data, appendOutcome) == SuccessReply(data)

----------------------------------------------------------------------------
(* Spec: the inputs of the handler *)

\* What the PDF reader makes of a downloaded file
PdfUnreadable == [read |-> "raise", pages |-> <<>>, raster |-> "ok", images |-> <<>>]

PdfWithText(n) ==
    [read |-> "ok", pages |-> <<[isNone |-> FALSE, text |-> Rep("d", n)]>>,
     raster |-> "missing", images |-> <<>>]

PdfScanned(n) ==
    [read |-> "ok", pages |-> <<[isNone |-> TRUE, text |-> <<>>]>>,
     raster |-> "ok", images |-> <<[raises |-> FALSE, text |-> Rep("o", n)]>>]

PdfBlank ==
    [read |-> "ok", pages |-> <<[isNone |-> FALSE, text |-> Pad(1)]>>,
     raster |-> "raise", images |-> <<>>]

\* What the image reader makes of a downloaded file
ImgUnreadable ==
    [open |-> "raise", first |-> [raises |-> TRUE, text |-> <<>>],
     retry |-> [raises |-> TRUE, text |-> <<>>]]

ImgWithText(n) ==
    [open |-> "ok", first |-> [raises |-> FALSE, text |-> Rep("a", n)],
     retry |-> [raises |-> FALSE, text |-> <<>>]]

ImgBlank ==
    [open |-> "ok", first |-> [raises |-> FALSE, text |-> Pad(1)],
     retry |-> [raises |-> FALSE, text |-> <<>>]]

\* The downloaded files: PDFs with a long, a short and no text layer, a
\* blank PDF, an image with text, a blank image, and a file no reader opens
Docs ==
    { [pdf |-> PdfWithText(HandlerPdfMinText), img |-> ImgUnreadable],
      [pdf |-> PdfWithText(PdfMinText), img |-> ImgUnreadable],
      [pdf |-> PdfScanned(2 * PdfMinText), img |-> ImgWithText(HandlerPdfMinText)],
      [pdf |-> PdfBlank, img |-> ImgUnreadable],
      [pdf |-> PdfUnreadable, img |-> ImgWithText(3 * ImgMinText)],
      [pdf |-> PdfUnreadable, img |-> ImgBlank],
      [pdf |-> PdfUnreadable, img |-> ImgUnreadable] }

NoDoc == [pdf |-> PdfUnreadable, img |-> ImgUnreadable]

FailStatuses == {204, 403, 404, 500}

\* requests.get: it raises, or it returns a status and a body.  Without a
\* media URL it raises.
DownloadOutcomes(req) ==
    {[raises |-> TRUE, status |-> 0, doc |-> NoDoc]}
        \cup IF req.MediaUrl0.present
             THEN {[raises |-> FALSE, status |-> st, doc |-> NoDoc] : st \in FailStatuses}
                      \cup {[raises |-> FALSE, status |-> HttpOk, doc |-> d] : d \in Docs}
             ELSE {}

HandlerModelOutcomes ==
    {[raises |-> TRUE, response |-> <<>>]}
        \cup {[raises |-> FALSE, response |-> r] :
                r \in {FullObject, <<"{", "Email", "}">>, <<"CGPA">>, <<"x">>}}

ContentTypes ==
    { <<"a", "p", "p", "l", "i", "c", "a", "t", "i", "o", "n", "/", "p", "d", "f">>,
      <<"i", "m", "a", "g", "e", "/", "p", "n", "g">>,
      <<"i", "m", "a", "g", "e", "/", "j", "p", "e", "g">>,
      <<"I", "M", "A", "G", "E", "/", "J", "P", "G">>,
      <<"i", "m", "a", "g", "e", "/", "w", "e", "b", "p">> }

\* A body of n characters that ends with the keyword kw, l blanks before it
\* and r blanks after it
Body(n, kw, l, r) == Pad(l) \o Rep("x", n - Len(kw)) \o kw \o Pad(r)

KeywordSamples == Keywords \cup {<<>>, <<"C", "G", "P", "A">>, <<"B", ".", "T", "e", "c", "h">>}

BodyLens == {BodyMinLen - 1, BodyMinLen, BodyMinLen + 1}

Bodies ==
    { Body(BodyMinLen + 1, kw, 0, 0) : kw \in KeywordSamples }
        \cup { Body(t[1], t[2], t[3], t[4]) :
                 t \in { u \in BodyLens \X {<<>>, <<"@">>} \X (0..MaxPad) \X (0..MaxPad) :
                           u[3] + u[4] <= MaxPad } }
        \cup {<<>>, Pad(1)}

Url == <<"u">>

Requests ==
    [method : {"GET"}, NumMedia : {Absent}, Body : {Absent},
     MediaUrl0 : {Absent}, MediaContentType0 : {Absent}]
        \cup [method : {"POST"}, NumMedia : {Field(<<"a">>), Field(<<>>)}, Body : {Absent},
              MediaUrl0 : {Absent}, MediaContentType0 : {Absent}]
        \cup [method : {"POST"}, NumMedia : {Field(<<"1">>)},
              Body : {Absent}, MediaUrl0 : {Field(Url)},
              MediaContentType0 : {Absent} \cup {Field(c) : c \in ContentTypes}]
        \cup [method : {"POST"}, NumMedia : {Field(<<" ", "2">>)},
              Body : {Absent}, MediaUrl0 : {Absent, Field(Url)},
              MediaContentType0 : {Field(<<"a", "p", "p", "l", "i", "c", "a", "t", "i", "o", "n", "/", "p", "d", "f">>)}]
        \cup [method : {"POST"}, NumMedia : {Field(<<"0">>)},
              Body : {Absent} \cup {Field(b) : b \in Bodies},
              MediaUrl0 : {Absent}, MediaContentType0 : {Absent}]
        \cup [method : {"POST"}, NumMedia : {Absent},
              Body : {Absent, Field(Body(BodyMinLen + 1, <<"@">>, 0, 0))},
              MediaUrl0 : {Absent}, MediaContentType0 : {Absent}]
        \cup [method : {"POST"}, NumMedia : {Field(<<"-", "1">>)},
              Body : {Field(Body(BodyMinLen + 1, <<"@">>, 0, 0))},
              MediaUrl0 : {Absent}, MediaContentType0 : {Absent}]

----------------------------------------------------------------------------
(* Spec: the handler *)

\* The request ends: what it did and returned, and the stores it leaves
Finish(l, sheet2, files2, saved2) ==
    /\ last' = l
    /\ sheet' = sheet2
    /\ files' = files2
    /\ saved' = saved2
    /\ handled' = handled + 1
    /\ UNCHANGED <<now, FnVars>>

Replied(l, reply) == [l EXCEPT !.kind = "reply", !.reply = reply]

Escaped(l, stage) == [l EXCEPT !.kind = "exception", !.stage = stage]

\* open(file_path, "wb") and f.write: the file now holds this event's bytes
WriteFile(fs, path, id) ==
    [p \in DOMAIN fs \cup {path} |-> IF p = path THEN id ELSE fs[p]]

\* From the model call to the reply, the same on both paths: recover the
\* fields, append the row (a failure of the append is only logged), reply.
RecoverAndPersist(l, text, files2, saved2) ==
    \E model \in HandlerModelOutcomes, appendOutcome \in {"ok", "raise"} :
        LET data == extract_resume_info(text, model)
            row == Row(data)
            done == [l EXCEPT !.info = TRUE, !.infoArg = text,
                              !.modelCalled = ModelInvoked(text), !.data = data,
                              !.append = appendOutcome, !.row = row]
        IN  Finish(Replied(done, ReplyAfterAppend(data, appendOutcome)),
                   IF appendOutcome = "ok" THEN Append(sheet, row) ELSE sheet,
                   files2, saved2)

\* The media path.  The download is made with or without credentials; both
\* calls have the outcomes of DownloadOutcomes.  The extractors catch what
\* they raise, so the handler's own except around them is never entered.
\* An exception of the download or of the file write is caught nowhere.
MediaPath(req) ==
    LET content_type == FormGet(req.MediaContentType0, <<>>)
        timestamp == Timestamp(now)
        file_extension == FileExtension(content_type)
        file_name == FileName(timestamp, file_extension)
        file_path == FilePath(file_name)
        id == handled + 1
        began == [Idle EXCEPT !.req = req, !.path = file_path]
    IN  \E r \in DownloadOutcomes(req) :
            IF r.raises THEN Finish(Escaped(began, "download"), sheet, files, saved)
            ELSE LET got == [began EXCEPT !.downloaded = TRUE, !.status = r.status]
                 IN  IF ~DownloadOk(r.status)
                     THEN Finish(Replied(got, DownloadErrorReply(r.status)),
                                 sheet, files, saved)
                     ELSE \E writeOutcome \in {"ok", "raise"} :
                            IF writeOutcome = "raise"
                            THEN Finish(Escaped(got, "write"), sheet, files, saved)
                            ELSE LET files2 == WriteFile(files, file_path, id)
                                     saved2 == Append(saved, [id |-> id, path |-> file_path])
                                     text == ExtractText(file_extension, file_name, r.doc)
                                     read == [got EXCEPT !.written = TRUE, !.extracted = TRUE]
                                 IN  IF NoText(text)
                                     THEN Finish(Replied(read, FixedReply("no_text")),
                                                 sheet, files2, saved2)
                                     ELSE RecoverAndPersist(read, text, files2, saved2)

\* The text path
TextPath(req) ==
    LET body == FormGet(req.Body, <<>>)
        began == [Idle EXCEPT !.req = req]
    IN  IF LongEnough(body)
        THEN IF LooksLikeResume(body)
             THEN RecoverAndPersist(began, body, files, saved)
             ELSE Finish(Replied(began, FixedReply("need_resume")), sheet, files, saved)
        ELSE Finish(Replied(began, FixedReply("generic")), sheet, files, saved)

\* whatsapp_webhook, one request from its arrival to its return; the
\* process handles at most limit requests
Webhook(limit) ==
    /\ handled < limit
    /\ \E req \in Requests :
        IF req.method = "GET"
        THEN Finish(Replied([Idle EXCEPT !.req = req], FixedReply("verified")),
                    sheet, files, saved)
        ELSE LET num_media == IF req.NumMedia.present
                              THEN ParseInt(req.NumMedia.value)
                              ELSE [ok |-> TRUE, val |-> 0]
             IN  IF ~num_media.ok
                 THEN Finish(Escaped([Idle EXCEPT !.req = req], "form"), sheet, files, saved)
                 ELSE IF num_media.val > 0 THEN MediaPath(req) ELSE TextPath(req)

\* Time passes between and during requests
Tick ==
    /\ now < MaxTime
    /\ now' = now + 1
    /\ UNCHANGED <<sheet, files, saved, handled, last, FnVars>>

Init ==
    /\ op = "idle"
    /\ input = <<>>
    /\ output = <<>>
    /\ HandlerInit

WhatsappWebhook == Webhook(MaxEvents)

Next == WhatsappWebhook \/ Tick

Spec == Init /\ [][Next]_vars

\* The same process observed over MaxHistory requests
WhatsappWebhookAgain == Webhook(MaxHistory)

NextHistory == WhatsappWebhookAgain \/ Tick

SpecHistory == Init /\ [][NextHistory]_vars

----------------------------------------------------------------------------
(* Properties of the field recovery, under SpecRecover *)

Recovered == op = "extract_resume_info"

\* extract_resume_info received a response from the model
ResponseReceived ==
    Recovered /\ ModelInvoked(input.arg[1]) /\ ~input.arg[2].raises

Response == input.arg[2].response

\* C1: every record returned by extract_resume_info after a model response
\* was received has all five canonical keys; a field absent from the parsed
\* mapping is filled with N/A, never omitted.
C1_RecordHasAllFields ==
    ResponseReceived =>
        /\ FieldSet \subseteq DOMAIN output
        /\ LET parsed == extract_json_from_response(Response)
           IN  \A f \in FieldSet :
                   (parsed.isNone \/ f \notin DOMAIN parsed.dict) => output[f] = "N/A"

\* The response has no brace and no label of any of the five fields
Unparseable(r) == \A i \in DOMAIN r : r[i] \notin {"{", "}"} \cup FieldSet

IsPrefix(p, r) == Len(p) <= Len(r) /\ SubSeq(r, 1, Len(p)) = p

AllNotAvailable(rec) == \A f \in FieldSet : f \in DOMAIN rec /\ rec[f] = "N/A"

\* C9 as stated: for every response without braces and field labels, the
\* empty one included, the record is five N/A plus an excerpt of the raw
\* response that is non-empty and at most 500 characters long.
C9_ExcerptNonEmpty ==
    (ResponseReceived /\ Unparseable(Response)) =>
        /\ AllNotAvailable(output)
        /\ "raw_response" \in DOMAIN output
        /\ ExcerptLen(output["raw_response"]) > 0
        /\ ExcerptLen(output["raw_response"]) <= 500

\* C9 amended: for every response without braces and field labels, the
\* record is five N/A plus the first 500 characters of the raw response:
\* an excerpt of at most 500 characters that is empty only when the
\* response is empty.
C9_ExcerptIsPrefix ==
    (ResponseReceived /\ Unparseable(Response)) =>
        /\ AllNotAvailable(output)
        /\ DOMAIN output = FieldSet \cup {"raw_response"}
        /\ IsPrefix(output["raw_response"].whole, Response)
        /\ ExcerptLen(output["raw_response"]) = Min(500, CharLen(Response))
        /\ ExcerptLen(output["raw_response"]) <= 500
        /\ (ExcerptLen(output["raw_response"]) = 0 <=> Response = <<>>)

\* C9 witness: a response without braces and labels, longer than the cap,
\* was recovered into a record with an excerpt cut at the cap
C9_Witness ==
    /\ ResponseReceived
    /\ Unparseable(Response)
    /\ CharLen(Response) > 500
    /\ ExcerptLen(output["raw_response"]) = 500

----------------------------------------------------------------------------
(* Properties of the text extractors, under SpecExtract *)

\* The direct text layer of the PDF that was read
DirectText == Concat([i \in DOMAIN input.arg.pages |-> OrEmpty(input.arg.pages[i])])

OcrText == Concat([i \in DOMAIN input.arg.images |-> input.arg.images[i].text])

\* The PDF was read and its text layer is short enough to trigger the OCR
FallbackTriggered ==
    /\ op = "extract_text_from_pdf"
    /\ input.arg.read = "ok"
    /\ Len(Strip(DirectText)) < 20

\* C3: when the stripped direct text is shorter than 20 and the page OCR
\* runs and yields text, the returned text is the OCR output alone.
C3_OcrReplacesDirect ==
    (/\ FallbackTriggered
     /\ input.arg.raster = "ok"
     /\ \A i \in DOMAIN input.arg.images : ~input.arg.images[i].raises
     /\ Strip(OcrText) # <<>>)
        => output = Strip(OcrText)

\* C5: when the OCR fallback is triggered and cannot complete (no
\* rasterizer, the rasterizer raises, the OCR raises on a page), the
\* stripped direct text is returned.
C5_DirectTextKept ==
    (/\ FallbackTriggered
     /\ \/ input.arg.raster # "ok"
        \/ \E i \in DOMAIN input.arg.images : input.arg.images[i].raises)
        => output = Strip(DirectText)

\* C4: when the first OCR result is shorter than 10 after stripping and
\* the retry runs, the returned text is the longer of the two attempts.
C4_LongerAttemptWins ==
    (/\ op = "extract_text_from_image"
     /\ input.arg.open = "ok"
     /\ ~input.arg.first.raises
     /\ Len(Strip(input.arg.first.text)) < 10
     /\ ~input.arg.retry.raises)
        => /\ output \in {Strip(input.arg.first.text), Strip(input.arg.retry.text)}
           /\ Len(output) >= Len(Strip(input.arg.first.text))
           /\ Len(output) >= Len(Strip(input.arg.retry.text))

----------------------------------------------------------------------------
(* Properties of the handler, under Spec and SpecHistory *)

\* The last request was a POST whose NumMedia reads as n
PostWithMedia(n) ==
    /\ last.kind # "none"
    /\ last.req.method = "POST"
    /\ LET num_media == IF last.req.NumMedia.present
                        THEN ParseInt(last.req.NumMedia.value)
                        ELSE [ok |-> TRUE, val |-> 0]
       IN  num_media.ok /\ num_media.val = n

LastBody == FormGet(last.req.Body, <<>>)

ColumnOrder == <<"Full Name", "Email", "Phone Number", "CGPA", "BTech College Name">>

\* The last request recovered the fields of the body and handed the row of
\* its five columns, in the fixed order, to the row-store; the row is the
\* last one of the sheet when the append did not raise
BodyProcessed ==
    /\ last.kind = "reply"
    /\ last.info
    /\ last.infoArg = LastBody
    /\ last.append \in {"ok", "raise"}
    /\ Len(last.row) = 5
    /\ \A i \in 1..5 :
          last.row[i] = IF ColumnOrder[i] \in DOMAIN last.data
                        THEN last.data[ColumnOrder[i]] ELSE "N/A"
    /\ last.append = "ok" => (sheet # <<>> /\ sheet[Len(sheet)] = last.row)

HasKeyword(body) ==
    \E keyword \in Keywords : Contains(Lower(body), keyword)

C6_NoExceptionEscapes ==
    (last.kind # "none" /\ last.req.method = "POST") => last.kind = "reply"

\* C7: a media event whose download returns a status other than 200 is
\* answered with an error message that contains the status, and in that
\* request nothing is extracted, the model is not called, and nothing is
\* appended to the row-store.
C7_DownloadFailure ==
    [][(handled' = handled + 1 /\ last'.downloaded /\ last'.status # 200)
          => /\ last'.kind = "reply"
             /\ last'.reply.kind = "download_error"
             /\ Contains(last'.reply.message, Digits(last'.status))
             /\ ~last'.written
             /\ ~last'.extracted
             /\ ~last'.info
             /\ ~last'.modelCalled
             /\ last'.append = "none"
             /\ sheet' = sheet
             /\ files' = files]_vars

\* C7 witness: a download answered 403 and the reply says so
C7_Witness ==
    /\ last.downloaded
    /\ last.status = 403
    /\ last.reply.kind = "download_error"
    /\ Contains(last.reply.message, <<"4", "0", "3">>)

\* C8: when the append raises, on the media path and on the text path, the
\* reply is the success reply that summarizes the recovered record, as it
\* is when the append succeeds.
C8_AppendFailureHidden ==
    (last.kind # "none" /\ last.append # "none")
        => /\ last.kind = "reply"
           /\ last.reply.kind = "success"
           /\ last.reply.data = last.data

\* C8 witness: the append raised after a file was downloaded and read, and
\* the reply is the success reply
C8_Witness ==
    /\ last.append = "raise"
    /\ last.written
    /\ last.reply.kind = "success"
    /\ sheet = <<>>

\* C10: the media events that wrote a file have pairwise distinct paths,
\* and every such file still holds the bytes of its event.
C10_NoOverwrite ==
    /\ \A i, j \in DOMAIN saved : i # j => saved[i].path # saved[j].path
    /\ \A i \in DOMAIN saved : files[saved[i].path] = saved[i].id

\* The last request got an error-keyed record from extract_resume_info
ErrorRecordReturned(l) == l.info /\ "error" \in DOMAIN l.data

AllNA == [i \in 1..5 |-> "N/A"]

\* C11: whenever extract_resume_info returns an error-keyed record to the
\* handler (the model invocation raised, on the media path or on the text
\* path), the handler makes its one append to the row-store with a row whose
\* five columns are all "N/A" (the row-store gains exactly that row unless
\* the append itself raises), and the reply is the success reply that
\* embeds the error record: the record neither suppresses the append nor
\* turns the reply into an error message.
C11_ErrorRecordStillPersisted ==
    [][(handled' = handled + 1 /\ ErrorRecordReturned(last'))
          => /\ last'.modelCalled
             /\ last'.data = ErrorRecord("model error")
             /\ last'.append \in {"ok", "raise"}
             /\ last'.row = AllNA
             /\ sheet' = IF last'.append = "ok" THEN Append(sheet, AllNA) ELSE sheet
             /\ last'.kind = "reply"
             /\ last'.reply.kind = "success"
             /\ last'.reply.data = last'.data]_vars

\* C11 witness: the model raised on a downloaded and read file, the row of
\* five "N/A" is the one row of the row-store, and the reply is the success
\* reply embedding the error record
C11_Witness ==
    /\ last.written
    /\ last.modelCalled
    /\ "error" \in DOMAIN last.data
    /\ last.append = "ok"
    /\ sheet = <<AllNA>>
    /\ last.reply.kind = "success"
    /\ last.reply.data = last.data

\* C11 on the text path: the model raised on a resume-like body and the
\* same row and reply follow
C11_TextPathReached ==
    /\ PostWithMedia(0)
    /\ "error" \in DOMAIN last.data
    /\ last.append = "ok"
    /\ sheet = <<AllNA>>
    /\ last.reply.kind = "success"

====
